---- MODULE Spec2Model ----
(***************************************************************************)
(* A model of github.py: the GithubApi client (get, loadapi, getapi,       *)
(* list, query, info, close), the helpers getjs, findlast and              *)
(* sanitizereponame, the orchestrators querygithub, listrepos, inforepos   *)
(* and getlimits, and the driver main.                                     *)
(*                                                                         *)
(* Python str values that the code takes apart (paths, Link headers,       *)
(* repository identifiers) are sequences of one-character strings, so      *)
(* that find/split/regex are computed character by character.  Names that  *)
(* the code only passes around (api names, url templates, exception type   *)
(* names) are TLA+ strings.                                                *)
(***************************************************************************)
EXTENDS Integers, Sequences, FiniteSets, TLC

VARIABLES
    js_in, path_in, getjs_out,      \* getjs(js, path) and its outcome
    link_in, findlast_out,          \* findlast(link) and its outcome
    pc,          \* where main is: "start", "gather", "exit", "crash"
    args,        \* the parsed command line
    d,           \* api.d, the endpoint map
    closed,      \* how many times api.close() has been called
    task,        \* the coroutine main scheduled, and its local variables
    err,         \* the exception that left the coroutine, Pending if none
    inflight,    \* a request of the session is outstanding
    requests,    \* every request issued, in order
    g,           \* the most recent call of get: response, outcome, r.close()
    looked       \* the most recent call of getapi: name and outcome

jsvars   == <<js_in, path_in, getjs_out>>
linkvars == <<link_in, findlast_out>>
mainvars == <<pc, args, closed, task, err, inflight, requests>>
apivars  == <<d, g, looked>>
vars     == <<jsvars, linkvars, mainvars, apivars>>

----------------------------------------------------------------------------
(* Bounds of the enumerated inputs.                                        *)

MaxPathLen == 4      \* longest dotted path given to getjs
MaxLinks   == 2      \* most entries of an enumerated Link header
MaxRepos   == 2      \* most identifiers on the command line
MaxPages   == 3      \* largest last page a response reports

----------------------------------------------------------------------------
(* Outcomes of a Python call: a returned value, a returned None, or a      *)
(* raised exception with its type name and its args tuple.                 *)

Return(v)    == [kind |-> "return", val |-> v]
ReturnNone   == [kind |-> "none"]
Raise(e, a)  == [kind |-> "raise", exc |-> e, args |-> a]
Pending      == [kind |-> "pending"]

----------------------------------------------------------------------------
(* Python str operations on sequences of characters.                       *)

SeqMin(S) == CHOOSE x \in S : \A y \in S : x <= y

\* s[i:] with a 0-based start
SliceFrom(s, i) == SubSeq(s, i + 1, Len(s))

\* s[:i] with a 0-based end
SliceTo(s, i) == SubSeq(s, 1, i)

\* s.find(sub): the 0-based index of the first occurrence, -1 if there is none
StrFind(s, sub) ==
    LET hits == {i \in 0..(Len(s) - Len(sub)) : SubSeq(s, i + 1, i + Len(sub)) = sub}
    IN  IF hits = {} THEN -1 ELSE SeqMin(hits)

\* s.split(sep, 1): one or two pieces
StrSplit1(s, sep) ==
    LET i == StrFind(s, sep)
    IN  IF i < 0 THEN <<s>>
        ELSE <<SliceTo(s, i), SliceFrom(s, i + Len(sep))>>

\* s.split(sep): every piece, left to right
RECURSIVE StrSplit(_, _)
StrSplit(s, sep) ==
    LET i == StrFind(s, sep)
    IN  IF i < 0 THEN <<s>>
        ELSE <<SliceTo(s, i)>> \o StrSplit(SliceFrom(s, i + Len(sep)), sep)

Digits == {"0", "1", "2", "3", "4", "5", "6", "7", "8", "9"}

DigitValue(c) ==
    CASE c = "0" -> 0 [] c = "1" -> 1 [] c = "2" -> 2 [] c = "3" -> 3
      [] c = "4" -> 4 [] c = "5" -> 5 [] c = "6" -> 6 [] c = "7" -> 7
      [] c = "8" -> 8 [] c = "9" -> 9

\* int(ds) for a non-empty string of decimal digits
RECURSIVE ParseInt(_)
ParseInt(ds) ==
    IF ds = <<>> THEN 0
    ELSE 10 * ParseInt(SubSeq(ds, 1, Len(ds) - 1)) + DigitValue(ds[Len(ds)])

----------------------------------------------------------------------------
(* JSON values as Python holds them, tagged by their Python type.          *)

\* (one field name per type: a value is only ever compared with its own kind)
JInt(n)  == [t |-> "int",  int  |-> n]
JStr(s)  == [t |-> "str",  str  |-> s]
JBool(b) == [t |-> "bool", bool |-> b]
JNull    == [t |-> "None"]
JList(l) == [t |-> "list", list |-> l]
JDict(f) == [t |-> "dict", dict |-> f]

\* js[key] for a str key: dict lookup, KeyError(key) when the key is absent,
\* TypeError when js is not a dict (int, str, list, None take no str index)
GetItem(js, key) ==
    IF js.t = "dict"
    THEN IF key \in DOMAIN js.dict THEN Return(js.dict[key]) ELSE Raise("KeyError", <<key>>)
    ELSE Raise("TypeError", <<>>)

----------------------------------------------------------------------------
(* getjs: the dotted-path resolver.                                        *)

\* getjs with the path split at its LAST dot instead of its first
RECURSIVE getjs_lastdot(_, _)
getjs_lastdot(js, path) ==
    IF StrFind(path, <<".">>) >= 0
    THEN LET dots == {i \in 1..Len(path) : path[i] = "."}
             k    == CHOOSE i \in dots : \A j \in dots : j <= i
             sub  == GetItem(js, SubSeq(path, 1, k - 1))
         IN  IF sub.kind = "raise" THEN sub
             ELSE getjs_lastdot(sub.val, SliceFrom(path, k))
    ELSE GetItem(js, path)

RECURSIVE getjs(_, _)
getjs(js, path) ==
    IF StrFind(path, <<".">>) >= 0
    THEN LET parts == StrSplit1(path, <<".">>)
             sub   == GetItem(js, parts[1])
         IN  IF sub.kind = "raise" THEN sub ELSE getjs(sub.val, parts[2])
    ELSE GetItem(js, path)

\* The inputs of the getjs harness: mappings nested two deep over the keys
\* "a" and "b", and every path over the characters a, b and the dot.
PathChars == {"a", "b", "."}
JsKeys    == {<<"a">>, <<"b">>}
JsLeaves  == {JInt(1), JInt(2)}
JsDictsOver(vals) ==
    {JDict(f) : f \in UNION {[K -> vals] : K \in SUBSET JsKeys}}
JsLevel1  == JsLeaves \cup JsDictsOver(JsLeaves)
JsLevel2  == JsDictsOver(JsLevel1)
Paths     == UNION {[1..n -> PathChars] : n \in 0..MaxPathLen}

JsInit ==
    /\ js_in \in JsLevel2
    /\ path_in \in Paths
    /\ getjs_out = Pending

JsCall ==
    /\ getjs_out = Pending
    /\ getjs_out' = getjs(js_in, path_in)
    /\ UNCHANGED <<js_in, path_in, linkvars, mainvars, apivars>>

----------------------------------------------------------------------------
(* C9: what getjs resolves, stated on the path's dot-delimited segments.   *)

RECURSIVE SegmentsExist(_, _)
SegmentsExist(js, segs) ==
    /\ js.t = "dict"
    /\ segs[1] \in DOMAIN js.dict
    /\ Len(segs) = 1 \/ SegmentsExist(js.dict[segs[1]], Tail(segs))

RECURSIVE ValueAt(_, _)
ValueAt(js, segs) ==
    IF Len(segs) = 1 THEN js.dict[segs[1]]
    ELSE ValueAt(js.dict[segs[1]], Tail(segs))

\* The position of the first segment that cannot be indexed, and the value
\* it was to index
RECURSIVE Offending(_, _, _)
Offending(js, segs, i) ==
    IF js.t = "dict" /\ segs[i] \in DOMAIN js.dict
    THEN Offending(js.dict[segs[i]], segs, i + 1)
    ELSE [at |-> i, in |-> js]

RECURSIVE JoinDots(_)
JoinDots(segs) ==
    IF Len(segs) = 0 THEN <<>>
    ELSE IF Len(segs) = 1 THEN segs[1]
    ELSE segs[1] \o <<".">> \o JoinDots(Tail(segs))

PathSegments == StrSplit(path_in, <<".">>)
PathOffending == Offending(js_in, PathSegments, 1)
PathSoFar == JoinDots(SubSeq(PathSegments, 1, PathOffending.at - 1))

\* C9 (as amended): getjs returns exactly the value reached by indexing with
\* each dot-delimited segment in order when every segment exists; otherwise
\* it raises and returns nothing: KeyError carrying the offending segment
\* alone when that segment is missing from a mapping, TypeError when the
\* value to index is not a mapping.
C9_GetjsResolves ==
    getjs_out # Pending =>
        IF SegmentsExist(js_in, PathSegments)
        THEN getjs_out = Return(ValueAt(js_in, PathSegments))
        ELSE /\ getjs_out.kind = "raise"
             /\ PathOffending.in.t = "dict" =>
                   /\ getjs_out.exc = "KeyError"
                   /\ getjs_out.args = <<PathSegments[PathOffending.at]>>
             /\ PathOffending.in.t # "dict" =>
                   /\ getjs_out.exc = "TypeError"
                   /\ getjs_out.args = <<>>

\* C9 witness: a lookup that failed below the top level
C9_Witness ==
    /\ getjs_out.kind = "raise"
    /\ getjs_out.exc = "KeyError"
    /\ PathOffending.at = 2
    /\ Len(PathSegments) = 3

\* C9 (as claimed): when a segment is absent the error identifies the
\* offending segment and the path so far
C9_ErrorCarriesPath ==
    getjs_out # Pending =>
        IF SegmentsExist(js_in, PathSegments)
        THEN getjs_out = Return(ValueAt(js_in, PathSegments))
        ELSE /\ getjs_out.kind = "raise"
             /\ \E i, j \in DOMAIN getjs_out.args :
                   /\ i # j
                   /\ getjs_out.args[i] = PathSegments[PathOffending.at]
                   /\ getjs_out.args[j] = PathSoFar

----------------------------------------------------------------------------
(* findlast: the last page number of a Link header.                        *)

\* A Python Optional[str]: hdrs.get('Link') is None or a str
NoneStr    == [none |-> TRUE,  s |-> <<>>]
SomeStr(s) == [none |-> FALSE, s |-> s]

RelLast == <<"r","e","l","=","\"","l","a","s","t","\"">>
PageKey == <<"&","p","a","g","e","=">>

\* How many characters from 0-based position i on are decimal digits
RECURSIVE DigitRun(_, _)
DigitRun(s, i) ==
    IF i < Len(s) /\ s[i + 1] \in Digits THEN 1 + DigitRun(s, i + 1) ELSE 0

\* re.search(r'&page=(\d+)', s): group 1 of the leftmost match, the digits
\* taken greedily; <<>> stands for "no match" (group 1 is never empty)
SearchPage(s) ==
    LET hits == {i \in 0..(Len(s) - Len(PageKey)) :
                    /\ SubSeq(s, i + 1, i + Len(PageKey)) = PageKey
                    /\ DigitRun(s, i + Len(PageKey)) >= 1}
    IN  IF hits = {} THEN <<>>
        ELSE LET i == SeqMin(hits) + Len(PageKey)
             IN  SubSeq(s, i + 1, i + DigitRun(s, i))

\* The for loop of findlast over the entries from position i on.  The local
\* variable "last" is unbound until an entry with rel="last" assigns it.
RECURSIVE findlast_loop(_, _, _)
findlast_loop(entries, i, last) ==
    IF i > Len(entries) THEN [kind |-> "end", last |-> last]
    ELSE LET pieces == StrSplit1(entries[i], <<";"," ">>)
         IN  IF Len(pieces) # 2
             THEN Raise("ValueError", <<>>)      \* url, rel = [one piece]
             ELSE findlast_loop(entries, i + 1,
                      IF pieces[2] = RelLast
                      THEN [bound |-> TRUE, s |-> pieces[1]]
                      ELSE last)

findlast(link) ==
    IF link.none \/ link.s = <<>> THEN ReturnNone
    ELSE LET end == findlast_loop(StrSplit(link.s, <<","," ">>), 1,
                                  [bound |-> FALSE, s |-> <<>>])
         IN  IF end.kind = "raise" THEN end
             ELSE IF ~end.last.bound THEN Raise("UnboundLocalError", <<>>)
             ELSE IF end.last.s = <<>> THEN ReturnNone
             ELSE IF SearchPage(end.last.s) = <<>> THEN ReturnNone
             ELSE Return(ParseInt(SearchPage(end.last.s)))

\* The inputs of the findlast harness: None, and the headers made of up to
\* MaxLinks entries "url; rel" (or a bare url, which has no "; ") joined
\* by ", ".
LinkUrls == {
    <<"<","h","t","t","p","s",":","/","/","a","p","i",".","g","i","t","h","u","b",".","c","o","m","/","s","e","a","r","c","h","/","c","o","d","e","?","q","=","x","&","p","a","g","e","=","7",">">>,
    <<"<","u","?","q","=","x","&","p","a","g","e","=","1","2",">">>,
    <<"<","u","?","q","=","x",">">>,
    <<"<","u","?","p","a","g","e","=","3",">">>,
    <<"<","u","?","a","&","p","a","g","e","=","x","&","p","a","g","e","=","5",">">> }
LinkRels == {
    RelLast,
    <<"r","e","l","=","\"","n","e","x","t","\"">>,
    <<"r","e","l","=","\"","p","r","e","v","\"">>,
    <<"r","e","l","=","\"","l","a","s","t","\"",";"," ","x">> }
LinkEntries ==
    [url : LinkUrls, rel : LinkRels, sep : {TRUE}]
      \cup [url : {<<"<","u","?","q","=","x",">">>}, rel : {<<>>}, sep : {FALSE}]

EntryText(e) == IF e.sep THEN e.url \o <<";"," ">> \o e.rel ELSE e.url

RECURSIVE HeaderText(_)
HeaderText(es) ==
    IF Len(es) = 0 THEN <<>>
    ELSE IF Len(es) = 1 THEN EntryText(es[1])
    ELSE EntryText(es[1]) \o <<","," ">> \o HeaderText(Tail(es))

LinkLists == UNION {[1..n -> LinkEntries] : n \in 0..MaxLinks}

LinkInit ==
    /\ link_in \in {[none |-> TRUE, s |-> <<>>, entries |-> <<>>]}
                     \cup {[none |-> FALSE, s |-> HeaderText(es), entries |-> es] :
                              es \in LinkLists}
    /\ findlast_out = Pending

LinkCall ==
    /\ findlast_out = Pending
    /\ findlast_out' = findlast([none |-> link_in.none, s |-> link_in.s])
    /\ UNCHANGED <<link_in, jsvars, mainvars, apivars>>

----------------------------------------------------------------------------
(* C4: findlast on the enumerated headers.                                 *)

LinkLastAt == {i \in DOMAIN link_in.entries :
                  link_in.entries[i].sep /\ link_in.entries[i].rel = RelLast}
LinkWellFormed == \A i \in DOMAIN link_in.entries : link_in.entries[i].sep
LinkLastUrl ==
    link_in.entries[CHOOSE i \in LinkLastAt : \A j \in LinkLastAt : j <= i].url

\* C4 (as claimed): findlast never raises; it returns the integer after
\* '&page=' of the rel="last" entry when there is one and its url has it, and
\* "no last page" for an absent, empty or malformed header, a header without
\* a rel="last" entry, and a rel="last" url without '&page=<digits>'.
C4_FindlastTotal ==
    findlast_out # Pending =>
        /\ findlast_out.kind # "raise"
        /\ IF /\ ~link_in.none
              /\ LinkWellFormed
              /\ LinkLastAt # {}
              /\ SearchPage(LinkLastUrl) # <<>>
           THEN findlast_out = Return(ParseInt(SearchPage(LinkLastUrl)))
           ELSE findlast_out = ReturnNone

----------------------------------------------------------------------------
(* sanitizereponame: "owner/repo" out of a possibly url-decorated name.    *)

Github == <<"g","i","t","h","u","b">>
ComSlash == <<"c","o","m","/">>

\* re.sub(r'.*github.com/', '', name) for a name of one line: the greedy .*
\* takes the match from position 0 up to the last place where "github", any
\* one character and "com/" follow each other, and what is left is the rest.
StripHost(name) ==
    LET n    == Len(Github) + 1 + Len(ComSlash)
        hits == {i \in 0..(Len(name) - n) :
                    /\ SubSeq(name, i + 1, i + Len(Github)) = Github
                    /\ SubSeq(name, i + Len(Github) + 2, i + n) = ComSlash}
    IN  IF hits = {} THEN name
        ELSE SliceFrom(name, (CHOOSE i \in hits : \A j \in hits : j <= i) + n)

\* How many characters from 0-based position i on are not a slash
RECURSIVE NonSlashRun(_, _)
NonSlashRun(s, i) ==
    IF i < Len(s) /\ s[i + 1] # "/" THEN 1 + NonSlashRun(s, i + 1) ELSE 0

\* re.match(r'^[^/]+/[^/]+', name).group(0), or None
sanitizereponame(name) ==
    LET rest  == StripHost(name)
        owner == NonSlashRun(rest, 0)
        repo  == NonSlashRun(rest, owner + 1)
    IN  IF owner >= 1 /\ owner < Len(rest) /\ rest[owner + 1] = "/" /\ repo >= 1
        THEN Return(SliceTo(rest, owner + 1 + repo))
        ELSE ReturnNone

----------------------------------------------------------------------------
(* GithubApi: the endpoint map and getapi.                                 *)

\* self.d as __init__ sets it
DefaultApiMap ==
       "authorizations_url" :> "https://api.github.com/authorizations"
    @@ "code_search_url" :> "https://api.github.com/search/code?q={query}{&page,per_page,sort,order}"
    @@ "commit_search_url" :> "https://api.github.com/search/commits?q={query}{&page,per_page,sort,order}"
    @@ "current_user_authorizations_html_url" :> "https://github.com/settings/connections/applications{/client_id}"
    @@ "current_user_repositories_url" :> "https://api.github.com/user/repos{?type,page,per_page,sort}"
    @@ "current_user_url" :> "https://api.github.com/user"
    @@ "emails_url" :> "https://api.github.com/user/emails"
    @@ "emojis_url" :> "https://api.github.com/emojis"
    @@ "events_url" :> "https://api.github.com/events"
    @@ "feeds_url" :> "https://api.github.com/feeds"
    @@ "followers_url" :> "https://api.github.com/user/followers"
    @@ "following_url" :> "https://api.github.com/user/following{/target}"
    @@ "gists_url" :> "https://api.github.com/gists{/gist_id}"
    @@ "hub_url" :> "https://api.github.com/hub"
    @@ "issue_search_url" :> "https://api.github.com/search/issues?q={query}{&page,per_page,sort,order}"
    @@ "issues_url" :> "https://api.github.com/issues"
    @@ "keys_url" :> "https://api.github.com/user/keys"
    @@ "notifications_url" :> "https://api.github.com/notifications"
    @@ "organization_repositories_url" :> "https://api.github.com/orgs/{org}/repos{?type,page,per_page,sort}"
    @@ "organization_url" :> "https://api.github.com/orgs/{org}"
    @@ "public_gists_url" :> "https://api.github.com/gists/public"
    @@ "rate_limit_url" :> "https://api.github.com/rate_limit"
    @@ "repository_search_url" :> "https://api.github.com/search/repositories?q={query}{&page,per_page,sort,order}"
    @@ "repository_url" :> "https://api.github.com/repos/{owner}/{repo}"
    @@ "starred_gists_url" :> "https://api.github.com/gists/starred"
    @@ "starred_url" :> "https://api.github.com/user/starred{/owner}{/repo}"
    @@ "team_url" :> "https://api.github.com/teams"
    @@ "user_organizations_url" :> "https://api.github.com/user/orgs"
    @@ "user_repositories_url" :> "https://api.github.com/users/{user}/repos{?type,page,per_page,sort}"
    @@ "user_search_url" :> "https://api.github.com/search/users?q={query}{&page,per_page,sort,order}"
    @@ "user_url" :> "https://api.github.com/users/{user}"

ApiNames == DOMAIN DefaultApiMap

\* self.d is a dict after __init__ and the (js, headers) tuple that get
\* returned after loadapi
DictD(m)       == [t |-> "dict", dict |-> m]
TupleD(js, h)  == [t |-> "tuple", tuple |-> [js |-> js, headers |-> h]]

\* getapi(apiname): self.d.get(apiname), an Exception when that is None or ""
getapi(dd, apiname) ==
    IF dd.t # "dict" THEN Raise("AttributeError", <<>>)     \* tuple has no get
    ELSE IF apiname \notin DOMAIN dd.dict \/ dd.dict[apiname] = ""
    THEN Raise("Exception", <<apiname>>)                    \* "can't find '%s' api"
    ELSE Return(dd.dict[apiname])

----------------------------------------------------------------------------
(* GithubApi.get: one request, its response, the decoded body.             *)

\* A response body: its first two bytes, what it holds ("json": a JSON
\* text; "gzip_json": a gzip stream of a JSON text; "gzip_text": a gzip
\* stream of something else; "gzip_cut": a damaged gzip stream; "text":
\* anything else) and the JSON value in it.
Body(bytes, holds, js) == [bytes |-> bytes, holds |-> holds, js |-> js]

\* b.startswith(prefix) on byte strings
StartsWith(b, prefix) ==
    Len(b) >= Len(prefix) /\ SubSeq(b, 1, Len(prefix)) = prefix

GzipMagic == <<31, 139>>       \* b'\x1f\x8b'

BodyDoc == <<"b","o","d","y">>
DataDoc == <<"d","a","t","a">>

\* await r.json(): the decoded body, or the decode failure of the body
r_json(body) ==
    IF body.holds = "json" THEN Return(body.js)
    ELSE Raise("JSONDecodeError", <<BodyDoc>>)

\* zlib.decompress(r._content, wbits=31)
zlib_decompress(body) ==
    IF body.holds \in {"gzip_json", "gzip_text"} THEN Return(body)
    ELSE Raise("zlib.error", <<>>)

\* json.loads(data) of the decompressed data
json_loads(body) ==
    IF body.holds = "gzip_json" THEN Return(body.js)
    ELSE Raise("JSONDecodeError", <<DataDoc>>)

\* raise Exception(js.get('message')): args[0] is the field, or None
ApiError(message) == [kind |-> "raise", exc |-> "Exception", message |-> message]

\* js.get('message') of line 117
MessageKey == <<"m","e","s","s","a","g","e">>
js_get_message(js) ==
    IF js.t # "dict" THEN Raise("AttributeError", <<>>)
    ELSE IF MessageKey \in DOMAIN js.dict THEN Return(js.dict[MessageKey])
    ELSE Return(JNull)

\* Lines 101-110: js after the try statement.  "unbound" when r.json() failed
\* and the body has no gzip magic; an exception leaves the try statement
\* when the gzip fallback fails.
get_decode(body) ==
    LET first == r_json(body)
    IN  IF first.kind = "return" THEN first
        ELSE IF StartsWith(body.bytes, GzipMagic)
        THEN LET data == zlib_decompress(body)
             IN  IF data.kind = "raise" THEN data ELSE json_loads(data.val)
        ELSE [kind |-> "unbound"]

\* get(path, params) on what the network answers: net.ok is whether
\* self.client.get gave a response at all.  The outcome, and whether r.close()
\* was reached.
get(net) ==
    IF ~net.ok THEN [res |-> Raise("ClientError", <<>>), responded |-> FALSE,
                     closed |-> FALSE, status |-> 0, body |-> net.body]
    ELSE LET js == get_decode(net.body)
         IN  IF js.kind = "raise"            \* raised inside the except clause
             THEN [res |-> js, responded |-> TRUE, closed |-> FALSE,
                   status |-> net.status, body |-> net.body]
             ELSE LET res ==
                        IF js.kind = "unbound"   \* print(.., js) or return js
                        THEN Raise("UnboundLocalError", <<>>)
                        ELSE IF net.status # 200
                        THEN LET m == js_get_message(js.val)
                             IN  IF m.kind = "raise" THEN m ELSE ApiError(m.val)
                        ELSE Return([js |-> js.val, headers |-> net.link])
                  IN  [res |-> res, responded |-> TRUE, closed |-> TRUE,
                       status |-> net.status, body |-> net.body]

----------------------------------------------------------------------------
(* The str literals of the printing code, as character sequences.          *)

S_total_count == <<"t","o","t","a","l","_","c","o","u","n","t">>
S_items == <<"i","t","e","m","s">>
S_repository == <<"r","e","p","o","s","i","t","o","r","y">>
S_path == <<"p","a","t","h">>
S_html_url == <<"h","t","m","l","_","u","r","l">>
S_body == <<"b","o","d","y">>
S_size == <<"s","i","z","e">>
S_full_name == <<"f","u","l","l","_","n","a","m","e">>
S_description == <<"d","e","s","c","r","i","p","t","i","o","n">>
S_login == <<"l","o","g","i","n">>
S_name == <<"n","a","m","e">>
S_fork == <<"f","o","r","k">>
S_created_at == <<"c","r","e","a","t","e","d","_","a","t">>
S_updated_at == <<"u","p","d","a","t","e","d","_","a","t">>
S_remaining == <<"r","e","m","a","i","n","i","n","g">>
S_limit == <<"l","i","m","i","t">>
S_reset == <<"r","e","s","e","t">>
S_rate == <<"r","a","t","e">>
S_resources == <<"r","e","s","o","u","r","c","e","s">>
S_core == <<"c","o","r","e">>
S_search == <<"s","e","a","r","c","h">>
S_graphql == <<"g","r","a","p","h","q","l">>
S_repository_full_name == S_repository \o <<".">> \o S_full_name

----------------------------------------------------------------------------
(* The output layer: what each print function does to the flow of control. *)
(* The text written is not modelled; a print function either completes     *)
(* ("ok") or raises the first exception of its lookups and formats.        *)

Ok == [kind |-> "ok"]

\* The first exception among the outcomes, in order; Ok when there is none
FirstRaise(outs) ==
    LET bad == {i \in DOMAIN outs : outs[i].kind = "raise"}
    IN  IF bad = {} THEN Ok ELSE outs[SeqMin(bad)]

\* A value formatted by %d, or used in arithmetic: a number
Numeric(out) ==
    IF out.kind = "raise" THEN out
    ELSE IF out.val.t \in {"int", "bool"} THEN out
    ELSE Raise("TypeError", <<>>)

RECURSIVE SetToSeq(_)
SetToSeq(S) ==
    IF S = {} THEN <<>>
    ELSE LET x == CHOOSE y \in S : TRUE IN <<x>> \o SetToSeq(S \ {x})

\* for x in js: the elements of a list, the keys of a dict, the characters
\* of a str; anything else is not iterable
PyIter(js) ==
    IF js.t = "list" THEN Return(js.list)
    ELSE IF js.t = "dict" THEN Return([i \in 1..Cardinality(DOMAIN js.dict) |->
                                          JStr(SetToSeq(DOMAIN js.dict)[i])])
    ELSE IF js.t = "str" THEN Return([i \in 1..Len(js.str) |-> JStr(<<js.str[i]>>)])
    ELSE Raise("TypeError", <<>>)

\* One item of printresult
printitem(opts, where, item) ==
    IF where = "code"
    THEN FirstRaise(<<getjs(item, S_repository_full_name), getjs(item, S_path)>>)
    ELSE IF where = "issue"
    THEN FirstRaise(<<getjs(item, S_html_url), getjs(item, S_body)>>)
    ELSE IF where = "repo"
    THEN IF opts.urls THEN FirstRaise(<<getjs(item, S_html_url)>>)
         ELSE FirstRaise(<<getjs(item, S_size), getjs(item, S_full_name),
                           getjs(item, S_description), Numeric(getjs(item, S_size))>>)
    ELSE IF where = "user"
    THEN FirstRaise(<<getjs(item, S_login)>>)
    ELSE Ok

\* printresult(args, where, items)
printresult(opts, where, items) ==
    LET it == PyIter(items)
    IN  IF it.kind = "raise" THEN it
        ELSE FirstRaise([i \in DOMAIN it.val |-> printitem(opts, where, it.val[i])])

\* printrepoinfo(repo, namefield, args)
printrepoinfo(repo, namefield, opts) ==
    IF opts.urls THEN FirstRaise(<<getjs(repo, S_html_url)>>)
    ELSE IF opts.verbose
    THEN FirstRaise(<<getjs(repo, S_size), getjs(repo, S_created_at),
                      getjs(repo, S_updated_at), getjs(repo, namefield),
                      getjs(repo, S_description), Numeric(getjs(repo, S_size))>>)
    ELSE FirstRaise(<<getjs(repo, S_size), getjs(repo, namefield),
                      getjs(repo, S_description), Numeric(getjs(repo, S_size))>>)

\* bool(x) of a JSON value
Truthy(js) ==
    CASE js.t = "bool" -> js.bool
      [] js.t = "int"  -> js.int # 0
      [] js.t = "str"  -> js.str # <<>>
      [] js.t = "list" -> js.list # <<>>
      [] js.t = "dict" -> DOMAIN js.dict # {}
      [] OTHER         -> FALSE

\* One repo of printrepolist: forks are left out unless args.all
printrepo(repo, opts) ==
    IF opts.all THEN printrepoinfo(repo, S_name, opts)
    ELSE LET fork == GetItem(repo, S_fork)
         IN  IF fork.kind = "raise" THEN fork
             ELSE IF Truthy(fork.val) THEN Ok
             ELSE printrepoinfo(repo, S_name, opts)

\* printrepolist(jslist, args)
printrepolist(jslist, opts) ==
    LET it == PyIter(jslist)
    IN  IF it.kind = "raise" THEN it
        ELSE FirstRaise([i \in DOMAIN it.val |-> printrepo(it.val[i], opts)])

\* The body of the loop of getlimits for one path
printlimit(js, path) ==
    FirstRaise(<<getjs(js, path \o <<".">> \o S_remaining),
                 getjs(js, path \o <<".">> \o S_limit),
                 getjs(js, path \o <<".">> \o S_reset),
                 Numeric(getjs(js, path \o <<".">> \o S_reset)),
                 Numeric(getjs(js, path \o <<".">> \o S_remaining)),
                 Numeric(getjs(js, path \o <<".">> \o S_limit))>>)

LimitPaths == <<S_rate,
                S_resources \o <<".">> \o S_core,
                S_resources \o <<".">> \o S_search,
                S_resources \o <<".">> \o S_graphql>>

\* The loop of getlimits(api) over the four paths
printlimits(js) ==
    FirstRaise([i \in DOMAIN LimitPaths |-> printlimit(js, LimitPaths[i])])

----------------------------------------------------------------------------
(* What the network can answer.                                            *)

S_message_text == <<"B","a","d"," ","c","r","e","d","e","n","t","i","a","l","s">>
S_a_b == <<"a","/","b">>

\* A record with every field the print functions read
Entity ==
    JDict(S_repository :> JDict(S_full_name :> JStr(S_a_b))
       @@ S_path :> JStr(S_a_b) @@ S_html_url :> JStr(S_a_b) @@ S_body :> JStr(S_a_b)
       @@ S_size :> JInt(1) @@ S_full_name :> JStr(S_a_b) @@ S_name :> JStr(S_a_b)
       @@ S_description :> JNull @@ S_login :> JStr(S_a_b) @@ S_fork :> JBool(FALSE)
       @@ S_created_at :> JStr(S_a_b) @@ S_updated_at :> JStr(S_a_b))

Limit == JDict(S_remaining :> JInt(1) @@ S_limit :> JInt(60) @@ S_reset :> JInt(0))

JsSearchPage == JDict(S_total_count :> JInt(2) @@ S_items :> JList(<<Entity>>))
JsBareItem   == JDict(S_total_count :> JInt(1) @@ S_items :> JList(<<JDict(<<>>)>>))
JsNoItems    == JDict(S_total_count :> JInt(0))
JsMessage    == JDict(MessageKey :> JStr(S_message_text))
JsEmpty      == JDict(<<>>)
JsRepoList   == JList(<<Entity>>)
JsLimits     == JDict(S_rate :> Limit
                   @@ S_resources :> JDict(S_core :> Limit @@ S_search :> Limit
                                           @@ S_graphql :> Limit))

JsonBytes == <<123, 34>>       \* b'{"'
TextBytes == <<60, 104>>       \* b'<h'
HalfMagic == <<31, 60>>        \* the first gzip byte alone

Bodies ==
    {Body(JsonBytes, "json", js) :
        js \in {JsSearchPage, JsBareItem, JsNoItems, JsMessage, JsEmpty,
                JsRepoList, Entity, JsLimits}}
    \cup {Body(GzipMagic, "gzip_json", js) : js \in {JsSearchPage, JsRepoList, JsMessage}}
    \cup {Body(GzipMagic, "gzip_text", JNull), Body(GzipMagic, "gzip_cut", JNull),
          Body(TextBytes, "text", JNull), Body(HalfMagic, "text", JNull)}

DigitChars == <<"0", "1", "2", "3", "4", "5", "6", "7", "8", "9">>
RelNext  == <<"r","e","l","=","\"","n","e","x","t","\"">>
RelFirst == <<"r","e","l","=","\"","f","i","r","s","t","\"">>
PageUrl(n) == <<"<","u","?","q","=","x">> \o PageKey \o <<DigitChars[n + 1]>> \o <<">">>
Entry(url, rel) == [url |-> url, rel |-> rel, sep |-> TRUE]

\* The Link headers of a first page: none; empty; next and last = n; first alone (no
\* rel="last"); and a rel="last" url without a page
PageLinks ==
    {NoneStr}
    \cup {SomeStr(HeaderText(<<Entry(PageUrl(2), RelNext), Entry(PageUrl(n), RelLast)>>)) :
             n \in 0..MaxPages}
    \cup {SomeStr(<<>>),
          SomeStr(HeaderText(<<Entry(PageUrl(1), RelFirst)>>)),
          SomeStr(HeaderText(<<Entry(<<"<","u","?","q","=","x",">">>, RelLast)>>))}

NetError == [ok |-> FALSE, status |-> 0, link |-> NoneStr, body |-> Body(<<>>, "none", JNull)]

\* Answers whose headers the caller reads, and answers whose headers it drops
Nets      == {NetError} \cup [ok : {TRUE}, status : {200, 401}, link : PageLinks, body : Bodies]
PlainNets == {n \in Nets : n.link = NoneStr}

----------------------------------------------------------------------------
(* GithubApi.list, query, info, getlimits: the request each one issues.    *)

Request(api, url, arg, page) == [api |-> api, url |-> url, arg |-> arg, page |-> page]

\* Return(request), or the exception of getapi
Issue(dd, api, arg, page) ==
    LET url == getapi(dd, api)
    IN  IF url.kind = "raise" THEN url ELSE Return(Request(api, url.val, arg, page))

api_list(dd, username, pagenr)     == Issue(dd, "user_repositories_url", username, pagenr)
api_query(dd, where, query, pagenr) == Issue(dd, where \o "_search_url", query, pagenr)
api_getlimits(dd)                  == Issue(dd, "rate_limit_url", <<>>, 0)
api_info(dd, fullname) ==
    IF Len(StrSplit1(fullname, <<"/">>)) # 2 THEN Raise("ValueError", <<>>)
    ELSE Issue(dd, "repository_url", fullname, 0)

----------------------------------------------------------------------------
(* The coroutines.  A coroutine runs from one await of get to the next     *)
(* in one step; a slice is what such a step leaves behind.                 *)

Slice(at, e, req, p, i, lastpage) ==
    [at |-> at, err |-> e, req |-> req, p |-> p, i |-> i, lastpage |-> lastpage]

Finish(p, i, lastpage)  == Slice("done", Pending, <<>>, p, i, lastpage)
Fail(e, p, i, lastpage) == Slice("raised", e, <<>>, p, i, lastpage)
Suspend(call, p, i, lastpage) ==
    IF call.kind = "raise" THEN Fail(call, p, i, lastpage)
    ELSE Slice("await", Pending, <<call.val>>, p, i, lastpage)

\* "not lastpage"
NoLastPage(lp) == lp.kind = "none" \/ (lp.kind = "return" /\ lp.val = 0)

\* range(2, lastpage+1) without its last page
HasPage_short(p, lastpage) == p < lastpage

\* p in range(2, lastpage+1), for p >= 2
HasPage(p, lastpage) == p <= lastpage

\* where = 'repository' if args.where == 'repo' else args.where
SearchWhere == IF args.where = "repo" THEN "repository" ELSE args.where

\* The exception of a page request is caught and the loop goes on with the
\* next page
page_failed_skip(e) ==
    IF task.lastpage.kind = "return" /\ args.all /\ HasPage(task.p + 1, task.lastpage.val)
    THEN Suspend(IF task.co = "querygithub"
                 THEN api_query(d, SearchWhere, args.query, task.p + 1)
                 ELSE api_list(d, args.list, task.p + 1),
                 task.p + 1, 0, task.lastpage)
    ELSE Fail(e, task.p, 0, task.lastpage)

\* The exception of the awaited page request leaves querygithub or listrepos:
\* neither has a try statement
page_failed(e) == Fail(e, task.p, 0, task.lastpage)

\* querygithub up to its first await
query_start == Suspend(api_query(d, SearchWhere, args.query, 1), 1, 0, Pending)

\* querygithub from the answer for page p to its next await or its end
query_step(gr) ==
    IF gr.res.kind = "raise" THEN page_failed(gr.res)
    ELSE LET js       == gr.res.val.js
             lastpage == IF task.p = 1 THEN findlast(gr.res.val.headers)
                         ELSE task.lastpage
             found    == IF task.p = 1
                         THEN FirstRaise(<<lastpage, getjs(js, S_total_count),
                                           Numeric(getjs(js, S_total_count))>>)
                         ELSE Ok
             items    == GetItem(js, S_items)
             shown    == IF items.kind = "raise" THEN items
                         ELSE printresult(args, args.where, items.val)
         IN  IF found.kind = "raise" THEN Fail(found, task.p, 0, lastpage)
             ELSE IF shown.kind = "raise" THEN Fail(shown, task.p, 0, lastpage)
             ELSE IF NoLastPage(lastpage) \/ ~args.all THEN Finish(task.p, 0, lastpage)
             ELSE IF HasPage(task.p + 1, lastpage.val)
             THEN Suspend(api_query(d, SearchWhere, args.query, task.p + 1),
                          task.p + 1, 0, lastpage)
             ELSE Finish(task.p, 0, lastpage)

\* listrepos up to its first await
list_start == Suspend(api_list(d, args.list, 1), 1, 0, Pending)

\* listrepos from the answer for page p to its next await or its end
list_step(gr) ==
    IF gr.res.kind = "raise" THEN page_failed(gr.res)
    ELSE LET js       == gr.res.val.js
             lastpage == IF task.p = 1 THEN findlast(gr.res.val.headers)
                         ELSE task.lastpage
             shown    == printrepolist(js, args)
         IN  IF lastpage.kind = "raise" THEN Fail(lastpage, task.p, 0, lastpage)
             ELSE IF shown.kind = "raise" THEN Fail(shown, task.p, 0, lastpage)
             ELSE IF NoLastPage(lastpage) \/ ~args.all THEN Finish(task.p, 0, lastpage)
             ELSE IF HasPage(task.p + 1, lastpage.val)
             THEN Suspend(api_list(d, args.list, task.p + 1), task.p + 1, 0, lastpage)
             ELSE Finish(task.p, 0, lastpage)

\* The loop of inforepos that gives up at the first name it cannot parse
info_from_stop(i) ==
    IF i > Len(args.REPOS) \/ sanitizereponame(args.REPOS[i]).kind = "none"
    THEN Finish(0, i, Pending)
    ELSE Suspend(api_info(d, sanitizereponame(args.REPOS[i]).val), 0, i, Pending)

\* The loop of inforepos from REPOS[i] on: names that do not parse are
\* reported and skipped, the first that parses is looked up
RECURSIVE info_from(_)
info_from(i) ==
    IF i > Len(args.REPOS) THEN Finish(0, i, Pending)
    ELSE LET repo == sanitizereponame(args.REPOS[i])
         IN  IF repo.kind = "none" THEN info_from(i + 1)
             ELSE Suspend(api_info(d, repo.val), 0, i, Pending)

\* inforepos from the answer for REPOS[task.i] to its next await or its end
info_step(gr) ==
    IF gr.res.kind = "raise" THEN Fail(gr.res, 0, task.i, Pending)
    ELSE LET shown == printrepoinfo(gr.res.val.js, S_full_name, args)
         IN  IF shown.kind = "raise" THEN Fail(shown, 0, task.i, Pending)
             ELSE info_from(task.i + 1)

\* getlimits up to its await
limits_start == Suspend(api_getlimits(d), 0, 0, Pending)

\* getlimits from the answer to its end
limits_step(gr) ==
    IF gr.res.kind = "raise" THEN Fail(gr.res, 0, 0, Pending)
    ELSE LET shown == printlimits(gr.res.val.js)
         IN  IF shown.kind = "raise" THEN Fail(shown, 0, 0, Pending)
             ELSE Finish(0, 0, Pending)

\* The state a slice of coroutine co leaves
Resume(co, sl) ==
    /\ task' = [co |-> co, at |-> sl.at, p |-> sl.p, i |-> sl.i, lastpage |-> sl.lastpage]
    /\ err' = sl.err
    /\ requests' = requests \o sl.req
    /\ inflight' = (sl.at = "await")

----------------------------------------------------------------------------
(* main and the steps of the event loop.                                   *)

S_user  == <<"c","l","a","y","n","e">>
S_query == <<"q">>

RepoNames == {
    <<"h","t","t","p","s",":","/","/","g","i","t","h","u","b",".","c","o","m","/","f","o","o","/","b","a","r","/","i","s","s","u","e","s","/","1">>,
    <<"n","o","t","-","a","-","r","e","p","o">>,
    <<"f","o","o","/","b","a","r">>,
    <<"a","/">>,
    <<"g","i","t","h","u","b","X","c","o","m","/","a","/","b">> }

NoArgs == [list |-> <<>>, limits |-> FALSE, query |-> <<>>, where |-> "code",
           all |-> FALSE, urls |-> FALSE, verbose |-> FALSE, REPOS |-> <<>>]

\* The command lines: --list, --limits, --query and the REPOS list
ArgsSet ==
    {[NoArgs EXCEPT !.list = S_user, !.limits = l, !.all = a, !.urls = u, !.verbose = v] :
        l \in BOOLEAN, a \in BOOLEAN, u \in BOOLEAN, v \in BOOLEAN}
    \cup {[NoArgs EXCEPT !.limits = TRUE, !.query = q] : q \in {<<>>, S_query}}
    \cup {[NoArgs EXCEPT !.query = S_query, !.where = w, !.all = a, !.urls = u] :
        w \in {"code", "repo", "user", "issue", "commit", "bogus"},
        a \in BOOLEAN, u \in BOOLEAN}
    \cup {[NoArgs EXCEPT !.REPOS = r, !.urls = u, !.verbose = v] :
        r \in UNION {[1..n -> RepoNames] : n \in 0..MaxRepos},
        u \in BOOLEAN, v \in BOOLEAN}

NoTask == [co |-> "none", at |-> "idle", p |-> 0, i |-> 0, lastpage |-> Pending]
NoGet  == [res |-> Pending, responded |-> FALSE, closed |-> FALSE, status |-> 0,
           body |-> Body(<<>>, "none", JNull)]
NoLook == [name |-> "", res |-> Pending]

\* The state when main has parsed its arguments and built the GithubApi
MainInit ==
    /\ pc = "start"
    /\ args \in ArgsSet
    /\ d = DictD(DefaultApiMap)
    /\ closed = 0
    /\ task = NoTask
    /\ err = Pending
    /\ inflight = FALSE
    /\ requests = <<>>
    /\ g = NoGet
    /\ looked = NoLook

\* Lines 341-351: the coroutine is chosen and runs to its first await
Main_Start ==
    /\ pc = "start"
    /\ pc' = "gather"
    /\ IF args.list # <<>> THEN Resume("listrepos", list_start)
       ELSE IF args.limits THEN Resume("getlimits", limits_start)
       ELSE IF args.query # <<>> THEN Resume("querygithub", query_start)
       ELSE Resume("inforepos", info_from(1))
    /\ UNCHANGED <<args, closed, d, g, looked, jsvars, linkvars>>

\* The answer to a page request of querygithub arrives
Query_Step ==
    /\ pc = "gather" /\ task.co = "querygithub" /\ task.at = "await"
    /\ \E net \in IF task.p = 1 THEN Nets ELSE PlainNets :
          /\ g' = get(net)
          /\ Resume("querygithub", query_step(get(net)))
    /\ UNCHANGED <<pc, args, closed, d, looked, jsvars, linkvars>>

\* The answer to a page request of listrepos arrives
List_Step ==
    /\ pc = "gather" /\ task.co = "listrepos" /\ task.at = "await"
    /\ \E net \in IF task.p = 1 THEN Nets ELSE PlainNets :
          /\ g' = get(net)
          /\ Resume("listrepos", list_step(get(net)))
    /\ UNCHANGED <<pc, args, closed, d, looked, jsvars, linkvars>>

\* The answer to an info request of inforepos arrives
Info_Step ==
    /\ pc = "gather" /\ task.co = "inforepos" /\ task.at = "await"
    /\ \E net \in PlainNets :
          /\ g' = get(net)
          /\ Resume("inforepos", info_step(get(net)))
    /\ UNCHANGED <<pc, args, closed, d, looked, jsvars, linkvars>>

\* The answer to the request of getlimits arrives
Limits_Step ==
    /\ pc = "gather" /\ task.co = "getlimits" /\ task.at = "await"
    /\ \E net \in PlainNets :
          /\ g' = get(net)
          /\ Resume("getlimits", limits_step(get(net)))
    /\ UNCHANGED <<pc, args, closed, d, looked, jsvars, linkvars>>

\* Line 353: gather returned, loop.run_until_complete(api.close())
Main_Close ==
    /\ pc = "gather" /\ task.at = "done"
    /\ closed' = closed + 1
    /\ pc' = "exit"
    /\ UNCHANGED <<args, d, task, err, inflight, requests, g, looked, jsvars, linkvars>>

\* Line 351: gather raised the coroutine's exception; it leaves main, and
\* line 353 is not reached
Main_Raise ==
    /\ pc = "gather" /\ task.at = "raised"
    /\ pc' = "crash"
    /\ UNCHANGED <<args, closed, d, task, err, inflight, requests, g, looked, jsvars, linkvars>>

MainNext ==
    \/ Main_Start
    \/ Query_Step
    \/ List_Step
    \/ Info_Step
    \/ Limits_Step
    \/ Main_Close
    \/ Main_Raise

----------------------------------------------------------------------------
(* A GithubApi used directly: loadapi, getapi and get in any order.        *)

ApiInit ==
    /\ pc = "api"
    /\ args = NoArgs
    /\ d = DictD(DefaultApiMap)
    /\ closed = 0
    /\ task = NoTask
    /\ err = Pending
    /\ inflight = FALSE
    /\ requests = <<>>
    /\ g = NoGet
    /\ looked = NoLook

\* What the service root and the other urls answer in this specification:
\* a discovery document among the bodies
S_hub_url == <<"h","u","b","_","u","r","l">>
JsDiscovery == JDict(S_hub_url :> JStr(<<"h","t","t","p","s",":","/","/","x","/","h","u","b">>))
ApiBodies ==
    {Body(JsonBytes, "json", JsDiscovery)}
    \cup {b \in Bodies : b.js \in {JNull, JsMessage}}
ApiNets ==
    {NetError}
    \cup [ok : {TRUE}, status : {200, 401}, link : {NoneStr, SomeStr(<<>>)}, body : ApiBodies]

\* loadapi(): self.d = await self.get(self.baseurl)
Api_Loadapi ==
    /\ \E net \in ApiNets :
          /\ g' = get(net)
          /\ d' = IF get(net).res.kind = "return"
                  THEN TupleD(get(net).res.val.js, get(net).res.val.headers)
                  ELSE d
    /\ UNCHANGED <<looked, mainvars, jsvars, linkvars>>

\* getapi(apiname) for a name of the default map or another one
Api_Getapi ==
    /\ \E name \in ApiNames \cup {"bogus_url"} :
          looked' = [name |-> name, res |-> getapi(d, name)]
    /\ UNCHANGED <<d, g, mainvars, jsvars, linkvars>>

\* get(url) from list, query, info or getlimits
Api_Get ==
    /\ \E net \in ApiNets : g' = get(net)
    /\ UNCHANGED <<d, looked, mainvars, jsvars, linkvars>>

ApiNext ==
    \/ Api_Loadapi
    \/ Api_Getapi
    \/ Api_Get

----------------------------------------------------------------------------
(* The claims about main and the coroutines, on the states of Spec.        *)

Paged == task.co \in {"querygithub", "listrepos"}

\* The last page the first answer reported, 0 when it reported none
ReportedLast ==
    IF task.lastpage.kind = "return" THEN task.lastpage.val ELSE 0

\* C1: a paged operation asks for page 1, 2, ... in this order, each once and
\* nothing else; when it ends normally it has asked for every page up to
\* the reported last page L > 1 if --all is set, and for page 1 alone if
\* --all is not set or no last page was reported.
C1_PagesInOrder ==
    Paged =>
        /\ \A i \in DOMAIN requests :
              /\ requests[i].page = i
              /\ requests[i].api = requests[1].api
              /\ requests[i].arg = requests[1].arg
        /\ (args.all /\ ReportedLast > 1) => Len(requests) <= ReportedLast
        /\ (task.at = "done" /\ args.all /\ ReportedLast > 1) =>
              Len(requests) = ReportedLast
        /\ (task.lastpage.kind # "pending" /\ ~(args.all /\ ReportedLast > 1)) =>
              Len(requests) = 1

\* C1 witness: a walk over three pages that ended normally
C1_Witness ==
    /\ Paged /\ task.at = "done" /\ args.all
    /\ ReportedLast = 3
    /\ Len(requests) = 3

\* C2 (as claimed): when main is over, with or without an error, the session
\* has been closed exactly once, and never while a request is outstanding.
C2_ClosedExactlyOnce ==
    /\ pc \in {"exit", "crash"} => closed = 1
    /\ closed >= 1 => ~inflight
    /\ closed <= 1

\* The names of REPOS that parse, sanitized, in input order
RECURSIVE ParsedRepos(_)
ParsedRepos(names) ==
    IF names = <<>> THEN <<>>
    ELSE LET repo == sanitizereponame(Head(names))
         IN  (IF repo.kind = "return" THEN <<repo.val>> ELSE <<>>)
                \o ParsedRepos(Tail(names))

RequestArgs == [i \in DOMAIN requests |-> requests[i].arg]

\* C3 (as claimed): every name of REPOS that parses is looked up, in input
\* order, whatever happened to the names before it.
C3_EveryParsedLookedUp ==
    (task.co = "inforepos" /\ pc \in {"exit", "crash"}) =>
        RequestArgs = ParsedRepos(args.REPOS)

\* C3 (as amended): the names that parse are looked up in input order, a name
\* that does not parse is skipped, and the batch ends at the first lookup
\* that fails: the lookups made are those of the names up to that one.
C3_LookupsUntilFirstFailure ==
    task.co = "inforepos" =>
        /\ task.at = "done" => RequestArgs = ParsedRepos(args.REPOS)
        /\ task.at \in {"await", "raised"} =>
              /\ sanitizereponame(args.REPOS[task.i]).kind = "return"
              /\ RequestArgs = ParsedRepos(SubSeq(args.REPOS, 1, task.i))
        /\ task.at = "raised" => err.kind = "raise" /\ ~inflight

\* C3 witness: a batch that went past a name that does not parse
C3_Witness ==
    /\ task.co = "inforepos" /\ task.at = "done"
    /\ Len(requests) = 1
    /\ sanitizereponame(args.REPOS[1]).kind = "none"

\* C5: when the get of a page raises, the exception leaves the coroutine in
\* that step with no further request and the endpoint map as it was; once
\* the coroutine has raised, nothing is requested again and the map and the
\* session stay as they were.
C5_PageFailureAborts ==
    [][/\ (Paged /\ task.at = "await" /\ g'.res.kind = "raise") =>
              /\ task'.at = "raised"
              /\ err' = g'.res
              /\ requests' = requests
              /\ task'.p = task.p
              /\ d' = d
       /\ (Paged /\ task.at = "raised") =>
              /\ requests' = requests
              /\ task' = task
              /\ d' = d /\ d = DictD(DefaultApiMap)
              /\ closed' = 0]_vars

\* C5 witness: page 2 of 3 failed
C5_Witness ==
    /\ Paged /\ task.at = "raised" /\ args.all
    /\ g.res.kind = "raise"
    /\ ReportedLast = 3
    /\ task.p = 2
    /\ Len(requests) = 2

\* The JSON value in the body of the latest response, when it has one
BodyDecodes == g.body.holds \in {"json", "gzip_json"}
BodyHasMessage ==
    BodyDecodes /\ g.body.js.t = "dict" /\ MessageKey \in DOMAIN g.body.js.dict

\* C6 (as claimed): a status other than 200 makes get raise the api error,
\* with the body's message field, or a generic non-empty message when the
\* body has none.
C6_Non200RaisesApiError ==
    (g.responded /\ g.status # 200) =>
        /\ g.res.kind = "raise"
        /\ g.res.exc = "Exception"
        /\ "message" \in DOMAIN g.res
        /\ IF BodyHasMessage
           THEN g.res.message = g.body.js.dict[MessageKey]
           ELSE g.res.message.t = "str" /\ g.res.message.str # <<>>

\* C7 (as claimed): a body that is neither JSON nor gzip-wrapped JSON makes
\* get raise the decode failure of r.json(), whatever the status.
C7_DecodeFailurePropagates ==
    (g.responded /\ ~BodyDecodes) => g.res = r_json(g.body)

\* C10 (as claimed): when get is over after a response was received, r.close()
\* has been called.
C10_ResponseReleased ==
    g.responded => g.closed

----------------------------------------------------------------------------
(* The claim about the endpoint map, on the states of SpecApi.             *)

\* C8 (as claimed): getapi returns the url template for every name of the
\* default map, and raises its lookup error for any other name.
C8_DefaultNamesResolve ==
    looked.res.kind # "pending" =>
        IF looked.name \in ApiNames
        THEN looked.res = Return(DefaultApiMap[looked.name])
        ELSE looked.res.kind = "raise" /\ looked.res.exc = "Exception"

----------------------------------------------------------------------------
(* Specifications.                                                         *)

JsIdle   == js_in = JNull /\ path_in = <<>> /\ getjs_out = Pending
LinkIdle == link_in = [none |-> TRUE, s |-> <<>>, entries |-> <<>>] /\ findlast_out = Pending

\* main, from the parsed command line to the end of the process
Init     == MainInit /\ JsIdle /\ LinkIdle
Next     == MainNext
Spec     == Init /\ [][Next]_vars

\* a GithubApi under any sequence of loadapi, getapi and get
InitApi  == ApiInit /\ JsIdle /\ LinkIdle
SpecApi  == InitApi /\ [][ApiNext]_vars

\* getjs on every enumerated mapping and path
InitJs   == JsInit /\ LinkIdle /\ ApiInit
NextJs   == JsCall
SpecJs   == InitJs /\ [][NextJs]_vars

\* findlast on every enumerated header
InitLink == LinkInit /\ JsIdle /\ ApiInit
NextLink == LinkCall
SpecLink == InitLink /\ [][NextLink]_vars

====
